---- MODULE Spec2Model ----
(***************************************************************************)
(* Adaptive OS Scheduler for Real-Time Systems (src/app.py).               *)
(*                                                                         *)
(* The model follows one click of the "Run Simulation" button: the handler *)
(* validates the rows of the task table, calls simulate_scheduler, and the *)
(* simulation loop runs one release step and one dispatch step per time    *)
(* unit.  The widget values (task table, mode, simulation time, threshold) *)
(* are the inputs; they are chosen in Init and never change.               *)
(*                                                                         *)
(* Utilization is a Python float in the source.  It is modelled as an exact*)
(* fraction <<numerator, denominator>>, and the threshold as a number of   *)
(* slider steps of 0.05, i.e. util_threshold / ThresholdDen.  Rounding of  *)
(* floating-point sums is not modelled.                                    *)
(***************************************************************************)
EXTENDS Integers, Sequences, FiniteSets, TLC

VARIABLES
    task_df,        \* rows of the data editor: <<[Name, C, T, D], ...>>
    mode,           \* "RMS" | "EDF" | "Adaptive"
    sim_time,       \* number of time units to simulate
    util_threshold, \* adaptive threshold, in units of 1/ThresholdDen
    pc,             \* "idle" | "release" | "dispatch" | "done" | "plotted" |
                    \* "rejected"
    error,          \* message shown by st.error, "" when none
    tasks,          \* the list the handler hands to simulate_scheduler
    U,              \* theoretical utilization, <<num, den>>
    current_algo,   \* "RMS" | "EDF"; "" before simulate_scheduler starts
    order,          \* insertion order of the keys of the dict `state`
    state,          \* dict name -> runtime record
    schedule,       \* list of <<time, task name or "IDLE">>
    total_idle,
    recent_misses,
    time,           \* loop variable of `for time in range(sim_time)`
    result,         \* what simulate_scheduler returned, NoResult before
    segments        \* plot_gantt's list of <<task, start, end>>

vars == <<task_df, mode, sim_time, util_threshold, pc, error, tasks, U,
          current_algo, order, state, schedule, total_idle, recent_misses,
          time, result, segments>>

inputs == <<task_df, mode, sim_time, util_threshold>>

-----------------------------------------------------------------------------
(* Bounds of the explored input grid.                                      *)

MaxTasks == 2
MaxC == 3
MaxT == 2
MaxD == 2
MaxSimTime == 10

(* Program constants.                                                      *)

MinSimTime == 10
ThresholdDen == 20
MissLimit == 3

IDLE == "IDLE"
Modes == {"RMS", "EDF", "Adaptive"}
GridNames == {"T1", "T2"}
Thresholds == {10, 19}
NoResult == [schedule |-> <<>>, total_misses |-> <<>>, util_percent |-> <<0, 1>>,
             U |-> <<0, 1>>, used_algo |-> ""]

Row(n, c, t, d) == [Name |-> n, C |-> c, T |-> t, D |-> d]

SeqsUpTo(S, n) == UNION {[1..k -> S] : k \in 0..n}

GridRows == [Name : GridNames, C : 0..MaxC, T : 0..MaxT, D : 0..MaxD]

GridInputs ==
    [task_df : SeqsUpTo(GridRows, MaxTasks), mode : Modes,
     sim_time : MinSimTime..MaxSimTime, util_threshold : Thresholds]

(* The table the application starts with, at the default threshold 0.7.    *)
default_data == <<Row("T1", 1, 4, 4), Row("T2", 2, 5, 5), Row("T3", 1, 8, 8)>>

DefaultInputs ==
    [task_df : {default_data}, mode : Modes, sim_time : {20}, util_threshold : {14}]

(* One over-utilized task whose execution time exceeds its period.         *)
OverloadedTask == <<Row("T1", 5, 4, 4)>>

OverloadInputs ==
    [task_df : {OverloadedTask}, mode : Modes, sim_time : {12}, util_threshold : {14}]

(* A task set of utilization exactly 0.95 whose third task misses once per *)
(* hyperperiod under RMS.                                                  *)
SlowMissTasks == <<Row("T1", 1, 4, 1), Row("T2", 1, 5, 1), Row("T3", 3, 6, 1)>>

SlowMissInputs ==
    [task_df : {SlowMissTasks}, mode : Modes, sim_time : {130}, util_threshold : {19}]

Inputs == GridInputs \cup DefaultInputs \cup OverloadInputs \cup SlowMissInputs

-----------------------------------------------------------------------------
(* compute_utilization: sum of C/T over the rows, rows with T <= 0 skipped.*)

RECURSIVE compute_utilization(_)
compute_utilization(ts) ==
    IF ts = <<>> THEN <<0, 1>>
    ELSE LET rest == compute_utilization(SubSeq(ts, 1, Len(ts) - 1))
             t    == ts[Len(ts)]
         IN  IF t.T > 0
             THEN <<rest[1] * t.T + t.C * rest[2], rest[2] * t.T>>
             ELSE rest

(* U <= util_threshold, with util_threshold counted in 1/ThresholdDen.     *)
InitialAlgoLt(m, u, thr) ==
    IF m = "Adaptive"
    THEN IF u[1] * ThresholdDen < thr * u[2] THEN "RMS" ELSE "EDF"
    ELSE m

InitialAlgo(m, u, thr) ==
    IF m = "Adaptive"
    THEN IF u[1] * ThresholdDen <= thr * u[2] THEN "RMS" ELSE "EDF"
    ELSE m

(* The handler's check of one row.                                         *)
PositiveStrict(row) == ~(row.C < 0 \/ row.T < 0 \/ row.D < 0)

Positive(row) == ~(row.C <= 0 \/ row.T <= 0 \/ row.D <= 0)

(* Keys of `state` in insertion order: a name keeps the position of its    *)
(* first row.                                                              *)
RECURSIVE KeyOrder(_)
KeyOrder(ts) ==
    IF ts = <<>> THEN <<>>
    ELSE LET before == KeyOrder(SubSeq(ts, 1, Len(ts) - 1))
             n      == ts[Len(ts)].Name
         IN  IF \E i \in 1..Len(before) : before[i] = n
             THEN before
             ELSE Append(before, n)

(* state[name] = {...}: a later row with the same name overwrites.         *)
LastRow(ts, n) ==
    ts[CHOOSE i \in 1..Len(ts) :
          /\ ts[i].Name = n
          /\ \A j \in (i + 1)..Len(ts) : ts[j].Name # n]

Initialize(ts) ==
    [n \in {ts[i].Name : i \in 1..Len(ts)} |->
        LET r == LastRow(ts, n)
        IN  [C |-> r.C, T |-> r.T, D |-> r.D, next_release |-> 0,
             remaining |-> 0, abs_deadline |-> 0, misses |-> 0]]

-----------------------------------------------------------------------------
(* The release step of one task at time t.                                 *)

Due(s, t) == t >= s.next_release

MissedAtDeadline(s, t) == s.remaining > 0 /\ t >= s.abs_deadline

Missed(s, t) == s.remaining > 0 /\ t > s.abs_deadline

ReleaseJobRelativeDeadline(s, t) ==
    IF Due(s, t)
    THEN [s EXCEPT !.misses = IF Missed(s, t) THEN @ + 1 ELSE @,
                   !.remaining = s.C,
                   !.abs_deadline = s.D,
                   !.next_release = @ + s.T]
    ELSE s

ReleaseJobCarryOver(s, t) ==
    IF Due(s, t)
    THEN [s EXCEPT !.misses = IF Missed(s, t) THEN @ + 1 ELSE @,
                   !.remaining = @ + s.C,
                   !.abs_deadline = t + s.D,
                   !.next_release = @ + s.T]
    ELSE s

ReleaseJob(s, t) ==
    IF Due(s, t)
    THEN [s EXCEPT !.misses = IF Missed(s, t) THEN @ + 1 ELSE @,
                   !.remaining = s.C,
                   !.abs_deadline = t + s.D,
                   !.next_release = @ + s.T]
    ELSE s

releaseDueJobs(st, t) == [n \in DOMAIN st |-> ReleaseJob(st[n], t)]

MissesAtMostOne(st, t) ==
    IF \E n \in DOMAIN st : Due(st[n], t) /\ Missed(st[n], t) THEN 1 ELSE 0

MissesAt(st, t) == Cardinality({n \in DOMAIN st : Due(st[n], t) /\ Missed(st[n], t)})

(* The dispatch step.                                                      *)

ReadyIncludesFinished(st, ord) ==
    LET isReady(n) == st[n].remaining >= 0
    IN  SelectSeq(ord, isReady)

Ready(st, ord) ==
    LET isReady(n) == st[n].remaining > 0
    IN  SelectSeq(ord, isReady)

SwitchAlgoLate(m, algo, misses) ==
    IF m = "Adaptive" /\ misses > MissLimit THEN "EDF" ELSE algo

SwitchAlgoAnyMode(m, algo, misses) ==
    IF misses >= MissLimit THEN "EDF" ELSE algo

SwitchAlgo(m, algo, misses) ==
    IF m = "Adaptive" /\ misses >= MissLimit THEN "EDF" ELSE algo

MinByLast(ready, key) ==
    ready[CHOOSE i \in 1..Len(ready) :
             /\ \A j \in 1..Len(ready) : key[ready[i]] <= key[ready[j]]
             /\ \A j \in (i + 1)..Len(ready) : key[ready[j]] > key[ready[i]]]

(* Python's min(ready, key=...): the first element with the least key.     *)
MinBy(ready, key) ==
    ready[CHOOSE i \in 1..Len(ready) :
             /\ \A j \in 1..Len(ready) : key[ready[i]] <= key[ready[j]]
             /\ \A j \in 1..(i - 1) : key[ready[j]] > key[ready[i]]]

ChosenFromAll(algo, st, ready) ==
    IF algo = "RMS"
    THEN MinBy(order, [n \in DOMAIN st |-> st[n].T])
    ELSE MinBy(order, [n \in DOMAIN st |-> st[n].abs_deadline])

ChosenRelativeDeadline(algo, st, ready) ==
    IF algo = "RMS"
    THEN MinBy(ready, [n \in DOMAIN st |-> st[n].T])
    ELSE MinBy(ready, [n \in DOMAIN st |-> st[n].D])

ChosenAlwaysEDF(algo, st, ready) ==
    MinBy(ready, [n \in DOMAIN st |-> st[n].abs_deadline])

Chosen(algo, st, ready) ==
    IF algo = "RMS"
    THEN MinBy(ready, [n \in DOMAIN st |-> st[n].T])
    ELSE MinBy(ready, [n \in DOMAIN st |-> st[n].abs_deadline])

IdleAfterAlways(idle, ready) == idle + 1

IdleAfter(idle, ready) == IF ready = <<>> THEN idle + 1 ELSE idle

LoopContinuesInclusive(t, n) == t <= n

LoopContinues(t, n) == t < n

UtilPercent(idle, n) == <<100 * (n - idle), n>>

(* plot_gantt.  The loop over schedule[1:] closes a segment at every      *)
(* position whose task differs from the previous slot's, and the last     *)
(* segment is closed after the loop.  Closings holds these positions      *)
(* (1-based; Len + 1 stands for the closing after the loop).              *)
Closings(sched) ==
    {i \in 2..Len(sched) : sched[i][2] # sched[i - 1][2]} \cup {Len(sched) + 1}

SegmentAtOpenEnd(sched, closings, e) ==
    LET earlier    == {c \in closings : c < e}
        start_time == IF earlier = {} THEN sched[1][1]
                      ELSE sched[CHOOSE c \in earlier : \A d \in earlier : d <= c][1]
    IN  <<sched[e - 1][2], start_time, sched[e - 1][1]>>

(* The segment closed at position e: (prev_task, start_time, prev_t + 1),  *)
(* where start_time is the time of the slot at the previous closing, or of *)
(* the first slot.                                                         *)
SegmentAt(sched, closings, e) ==
    LET earlier    == {c \in closings : c < e}
        start_time == IF earlier = {} THEN sched[1][1]
                      ELSE sched[CHOOSE c \in earlier : \A d \in earlier : d <= c][1]
    IN  <<sched[e - 1][2], start_time, sched[e - 1][1] + 1>>

(* The segments plot_gantt draws, in the order they are appended; none for *)
(* an empty schedule.                                                      *)
plot_gantt(sched) ==
    IF sched = <<>> THEN <<>>
    ELSE LET closings == Closings(sched)
         IN  [j \in 1..Cardinality(closings) |->
                SegmentAt(sched, closings,
                          CHOOSE e \in closings :
                              Cardinality({c \in closings : c <= e}) = j)]

-----------------------------------------------------------------------------
Init ==
    /\ \E cfg \in Inputs :
          /\ task_df = cfg.task_df
          /\ mode = cfg.mode
          /\ sim_time = cfg.sim_time
          /\ util_threshold = cfg.util_threshold
    /\ pc = "idle"
    /\ error = ""
    /\ tasks = <<>>
    /\ U = <<0, 1>>
    /\ current_algo = ""
    /\ order = <<>>
    /\ state = <<>>
    /\ schedule = <<>>
    /\ total_idle = 0
    /\ recent_misses = 0
    /\ time = 0
    /\ result = NoResult
    /\ segments = <<>>

(* The button handler finds a row with a non-positive parameter: st.error, *)
(* st.stop().                                                              *)
RejectInput ==
    /\ pc = "idle"
    /\ \E i \in 1..Len(task_df) : ~Positive(task_df[i])
    /\ pc' = "rejected"
    /\ error' = "All task parameters must be positive."
    /\ UNCHANGED <<inputs, tasks, U, current_algo, order, state, schedule,
                   total_idle, recent_misses, time, result, segments>>

(* Every row passes: the handler calls simulate_scheduler, which computes  *)
(* U, picks the base algorithm and initializes the runtime state.          *)
RunSimulation ==
    /\ pc = "idle"
    /\ \A i \in 1..Len(task_df) : Positive(task_df[i])
    /\ tasks' = task_df
    /\ U' = compute_utilization(task_df)
    /\ current_algo' = InitialAlgo(mode, compute_utilization(task_df), util_threshold)
    /\ order' = KeyOrder(task_df)
    /\ state' = Initialize(task_df)
    /\ schedule' = <<>>
    /\ total_idle' = 0
    /\ recent_misses' = 0
    /\ time' = 0
    /\ pc' = "release"
    /\ UNCHANGED <<inputs, error, result, segments>>

(* Release jobs at the start of the time unit.                             *)
Release ==
    /\ pc = "release"
    /\ LoopContinues(time, sim_time)
    /\ state' = releaseDueJobs(state, time)
    /\ recent_misses' = recent_misses + MissesAt(state, time)
    /\ pc' = "dispatch"
    /\ UNCHANGED <<inputs, error, tasks, U, current_algo, order, schedule,
                   total_idle, time, result, segments>>

(* Collect the ready tasks, apply the adaptive switch, emit one slot.      *)
Dispatch ==
    /\ pc = "dispatch"
    /\ LET ready == Ready(state, order)
           algo  == SwitchAlgo(mode, current_algo, recent_misses)
       IN  /\ current_algo' = algo
           /\ total_idle' = IdleAfter(total_idle, ready)
           /\ IF ready = <<>>
              THEN /\ schedule' = Append(schedule, <<time, IDLE>>)
                   /\ state' = state
              ELSE LET chosen == Chosen(algo, state, ready)
                   IN  /\ schedule' = Append(schedule, <<time, chosen>>)
                       /\ state' = [state EXCEPT ![chosen].remaining = @ - 1]
    /\ time' = time + 1
    /\ pc' = "release"
    /\ UNCHANGED <<inputs, error, tasks, U, order, recent_misses, result,
                   segments>>

(* The loop is over: collect the statistics and return.                    *)
Finish ==
    /\ pc = "release"
    /\ ~LoopContinues(time, sim_time)
    /\ result' = [schedule |-> schedule,
                  total_misses |-> [n \in DOMAIN state |-> state[n].misses],
                  util_percent |-> UtilPercent(total_idle, sim_time),
                  U |-> U,
                  used_algo |-> current_algo]
    /\ pc' = "done"
    /\ UNCHANGED <<inputs, error, tasks, U, current_algo, order, state,
                   schedule, total_idle, recent_misses, time, segments>>

(* The handler draws the returned schedule: plot_gantt collects the        *)
(* segments.                                                               *)
PlotGantt ==
    /\ pc = "done"
    /\ segments' = plot_gantt(result.schedule)
    /\ pc' = "plotted"
    /\ UNCHANGED <<inputs, error, tasks, U, current_algo, order, state,
                   schedule, total_idle, recent_misses, time, result>>

Next == RejectInput \/ RunSimulation \/ Release \/ Dispatch \/ Finish \/ PlotGantt

Spec == Init /\ [][Next]_vars

-----------------------------------------------------------------------------
(* Helpers of the properties below.                                        *)

Running == pc \in {"release", "dispatch"}

Started == pc \in {"release", "dispatch", "done"}

SuppliedNames == {task_df[i].Name : i \in 1..Len(task_df)}

CountOf(sched, who) == Cardinality({i \in 1..Len(sched) : sched[i][2] = who})

RECURSIVE SumSlots(_, _)
SumSlots(sched, names) ==
    IF names = <<>> THEN 0
    ELSE CountOf(sched, Head(names)) + SumSlots(sched, Tail(names))

UtilAtMostThreshold ==
    LET u == compute_utilization(task_df)
    IN  u[1] * ThresholdDen <= util_threshold * u[2]

UtilEqualsThreshold ==
    LET u == compute_utilization(task_df)
    IN  u[1] * ThresholdDen = util_threshold * u[2]

\* C1: the run takes exactly sim_time iterations and returns sim_time slots;
\* the i-th slot has Time = i (0-based) and is IDLE or a supplied task
\* name; misses never shorten the run.
C1_ScheduleCoversSimTime ==
    /\ Started =>
          /\ Len(schedule) = time
          /\ time <= sim_time
          /\ \A i \in 1..Len(schedule) :
                /\ schedule[i][1] = i - 1
                /\ schedule[i][2] \in {IDLE} \cup SuppliedNames
    /\ pc = "done" =>
          /\ time = sim_time
          /\ result.schedule = schedule
          /\ Len(result.schedule) = sim_time

C1_Witness ==
    /\ pc = "done"
    /\ recent_misses > 0
    /\ Len(result.schedule) = sim_time
    /\ \E i \in 1..Len(schedule) : schedule[i][2] # IDLE

\* C2: for the single task C=5, T=4, D=4 and sim_time = 12 the returned
\* MissCount of the task is at least 1.
C2_OverloadCountsMiss ==
    (pc = "done" /\ task_df = OverloadedTask /\ sim_time = 12)
        => result.total_misses["T1"] >= 1

\* C3: at a release of a task inside the window, an outgoing job that still
\* has execution left although its absolute deadline has been reached
\* increments the task's MissCount by one.
C3_MissesAlwaysRecorded ==
    [][(pc = "release" /\ pc' = "dispatch") =>
          \A n \in DOMAIN state :
              (/\ time >= state[n].next_release
               /\ state[n].remaining > 0
               /\ time >= state[n].abs_deadline)
                  => state'[n].misses = state[n].misses + 1]_vars

\* C4: in Adaptive mode, once the cumulative miss count is >= 3 after a
\* release step the unit's dispatch already uses EDF; EDF is kept at every
\* later step and returned as the final algorithm; the miss counter is
\* never reset.
C4_StickyEscalation ==
    [][(mode = "Adaptive" /\ Started) =>
          /\ (pc = "dispatch" /\ recent_misses >= 3) =>
                /\ current_algo' = "EDF"
                /\ LET ready == Ready(state, order)
                   IN  ready # <<>> =>
                          schedule'[Len(schedule')][2] = Chosen("EDF", state, ready)
          /\ current_algo = "EDF" => current_algo' = "EDF"
          /\ recent_misses' >= recent_misses
          /\ pc' = "done" => result'.used_algo = current_algo]_vars

C4_Witness ==
    /\ mode = "Adaptive"
    /\ UtilAtMostThreshold
    /\ recent_misses >= 3
    /\ pc = "done"
    /\ result.used_algo = "EDF"

\* C5: in Adaptive mode the rule is EDF throughout when U > threshold, and
\* RMS while the cumulative miss count is below 3 when U <= threshold
\* (equality included).
C5_InitialRule ==
    (mode = "Adaptive" /\ Started) =>
        /\ ~UtilAtMostThreshold =>
              /\ current_algo = "EDF"
              /\ pc = "done" => result.used_algo = "EDF"
        /\ (UtilAtMostThreshold /\ recent_misses < 3) => current_algo = "RMS"

C5_Witness ==
    /\ mode = "Adaptive"
    /\ task_df # <<>>
    /\ UtilEqualsThreshold
    /\ pc = "done"
    /\ result.used_algo = "RMS"

\* C6: in mode RMS or EDF the active rule and the final algorithm equal the
\* configured mode, whatever the misses, utilization and threshold.
C6_FixedModeKeepsRule ==
    (mode \in {"RMS", "EDF"} /\ Started) =>
        /\ current_algo = mode
        /\ pc = "done" => result.used_algo = mode

C6_Witness ==
    /\ mode = "RMS"
    /\ ~UtilAtMostThreshold
    /\ recent_misses >= 3
    /\ pc = "done"
    /\ result.used_algo = "RMS"

\* C7: a table with a non-positive ExecutionTime, Period or Deadline is
\* rejected with an error before any simulation step: no schedule, no miss
\* counts, no result.
C7_NonPositiveRejected ==
    ((\E i \in 1..Len(task_df) :
          task_df[i].C <= 0 \/ task_df[i].T <= 0 \/ task_df[i].D <= 0)
      /\ pc # "idle") =>
        /\ pc = "rejected"
        /\ error # ""
        /\ tasks = <<>>
        /\ state = <<>>
        /\ schedule = <<>>
        /\ time = 0
        /\ result = NoResult

C7_Witness ==
    /\ pc = "rejected"
    /\ Len(task_df) = 2
    /\ task_df[1].C > 0 /\ task_df[1].T > 0 /\ task_df[1].D > 0
    /\ task_df[2].C > 0 /\ task_df[2].T = 0 /\ task_df[2].D > 0

\* C8: a table in which two rows have the same Name is rejected, so a run
\* never holds fewer runtime entries than declared tasks.
C8_DuplicateNamesRejected ==
    ((\E i, j \in 1..Len(task_df) : i # j /\ task_df[i].Name = task_df[j].Name)
      /\ pc # "idle") =>
        /\ pc = "rejected"
        /\ Cardinality(DOMAIN state) = Len(tasks)

\* C9: the idle counter equals the number of IDLE slots, and the slots of
\* all tasks plus the idle counter add up to sim_time, so that
\* UtilizationPercent = 100 * busySlots / sim_time.
C9_SlotAccounting ==
    /\ Started => total_idle = CountOf(schedule, IDLE)
    /\ pc = "done" =>
          /\ SumSlots(result.schedule, order) + total_idle = sim_time
          /\ result.util_percent =
                <<100 * SumSlots(result.schedule, order), sim_time>>

C9_Witness ==
    /\ pc = "done"
    /\ total_idle > 0
    /\ SumSlots(result.schedule, order) > 0
    /\ Cardinality(DOMAIN state) >= 2

\* C11: the segments of a produced schedule (and of each of its prefixes,
\* the schedules of shorter runs) start at 0, end at its length, are
\* contiguous and non-empty, change Assignment at every boundary, and
\* expand unit by unit to the schedule itself; an empty schedule has no
\* segments and a one-slot schedule one unit-length segment.
Expand(segs) ==
    IF segs = <<>> THEN <<>>
    ELSE [i \in 1..segs[Len(segs)][3] |->
            <<i - 1,
              IF \E j \in 1..Len(segs) : segs[j][2] <= i - 1 /\ i - 1 < segs[j][3]
              THEN segs[CHOOSE j \in 1..Len(segs) :
                           segs[j][2] <= i - 1 /\ i - 1 < segs[j][3]][1]
              ELSE "">>]

WellSegmented(sched, segs) ==
    /\ sched = <<>> => segs = <<>>
    /\ Len(sched) = 1 => segs = <<<<sched[1][2], 0, 1>>>>
    /\ sched # <<>> =>
          /\ segs # <<>>
          /\ segs[1][2] = 0
          /\ segs[Len(segs)][3] = Len(sched)
    /\ \A j \in 1..Len(segs) : 0 <= segs[j][2] /\ segs[j][2] < segs[j][3]
    /\ \A j \in 1..(Len(segs) - 1) :
          /\ segs[j][3] = segs[j + 1][2]
          /\ segs[j][1] # segs[j + 1][1]
    /\ Expand(segs) = sched

C11_SegmentRoundTrip ==
    pc = "plotted" =>
        /\ WellSegmented(result.schedule, segments)
        /\ \A k \in 0..Len(result.schedule) :
              WellSegmented(SubSeq(result.schedule, 1, k),
                            plot_gantt(SubSeq(result.schedule, 1, k)))

C11_Witness ==
    /\ pc = "plotted"
    /\ Len(segments) >= 3
    /\ Len(segments) < Len(result.schedule)
    /\ \E j \in 1..Len(segments) : segments[j][1] = IDLE

\* C12: in RMS mode the first-declared task among those with the smallest
\* period gets the slot of each of its release times k*T, and no other
\* task gets a slot while it has execution left; for the default table and
\* sim_time 20, T1 gets slots 0, 4, 8, 12 and 16.
Slot == schedule'[Len(schedule')][2]

TopTask ==
    order[CHOOSE i \in 1..Len(order) :
             /\ \A j \in 1..Len(order) : state[order[i]].T <= state[order[j]].T
             /\ \A j \in 1..(i - 1) : state[order[j]].T # state[order[i]].T]

C12_TopPriorityRuns ==
    [][mode = "RMS" =>
          /\ (pc = "dispatch" /\ order # <<>>) =>
                /\ state[TopTask].remaining > 0 => Slot = TopTask
                /\ time % state[TopTask].T = 0 => Slot = TopTask
          /\ (pc' = "done" /\ task_df = default_data) =>
                \A t \in {0, 4, 8, 12, 16} : schedule[t + 1] = <<t, "T1">>]_vars

C12_Witness ==
    /\ mode = "RMS"
    /\ pc = "done"
    /\ task_df = default_data
    /\ \A t \in {0, 4, 8, 12, 16} : result.schedule[t + 1] = <<t, "T1">>
    /\ \E i \in 1..Len(schedule) : schedule[i][2] = "T2"

\* C13: whenever the active rule is RMS and some task is ready, the slot
\* goes to a ready task of least Period, and among the ready tasks of that
\* Period to the one declared first in the task list.
Position(n) ==
    CHOOSE i \in 1..Len(task_df) :
        /\ task_df[i].Name = n
        /\ \A j \in 1..(i - 1) : task_df[j].Name # n

ReadySet == {n \in DOMAIN state : state[n].remaining > 0}

C13_RMSDispatch ==
    [][(pc = "dispatch" /\ current_algo' = "RMS" /\ ReadySet # {}) =>
          /\ Slot \in ReadySet
          /\ \A m \in ReadySet :
                /\ state[Slot].T <= state[m].T
                /\ state[m].T = state[Slot].T => Position(Slot) <= Position(m)]_vars

C13_Witness ==
    /\ pc = "release"
    /\ current_algo = "RMS"
    /\ time >= 1
    /\ Len(order) = 2
    /\ schedule[time][2] = order[1]
    /\ state[order[2]].remaining > 0
    /\ state[order[2]].T = state[order[1]].T

\* C14: whenever the active rule is EDF and some task is ready, the slot
\* goes to a ready task of least current AbsoluteDeadline, and among the
\* ready tasks of that deadline to the one declared first in the task list.
C14_EDFDispatch ==
    [][(pc = "dispatch" /\ current_algo' = "EDF" /\ ReadySet # {}) =>
          /\ Slot \in ReadySet
          /\ \A m \in ReadySet :
                /\ state[Slot].abs_deadline <= state[m].abs_deadline
                /\ state[m].abs_deadline = state[Slot].abs_deadline
                      => Position(Slot) <= Position(m)]_vars

C14_Witness ==
    /\ pc = "release"
    /\ current_algo = "EDF"
    /\ time >= 1
    /\ Len(order) = 2
    /\ schedule[time][2] = order[2]
    /\ state[order[1]].remaining > 0
    /\ state[order[2]].abs_deadline < state[order[1]].abs_deadline
    /\ state[order[1]].T < state[order[2]].T

\* C15: a task's MissCount changes only in the release step; at time t it
\* grows by exactly 1 if and only if the task is due, has execution left
\* and t > AbsoluteDeadline; in every other case and step it is unchanged.
ReleaseStep == pc = "release" /\ pc' = "dispatch"

C15_MissDetection ==
    [][Started =>
          /\ DOMAIN state' = DOMAIN state
          /\ \A n \in DOMAIN state :
                IF /\ ReleaseStep
                   /\ state[n].next_release <= time
                   /\ state[n].remaining > 0
                   /\ time > state[n].abs_deadline
                THEN state'[n].misses = state[n].misses + 1
                ELSE state'[n].misses = state[n].misses]_vars

C15_Witness ==
    /\ pc = "dispatch"
    /\ time > 0
    /\ \E n, m \in DOMAIN state :
          /\ state[n].misses >= 1
          /\ state[n].next_release = time + state[n].T
          /\ state[m].misses = 0
          /\ state[m].next_release = time + state[m].T

\* C16: in the release step at time t every due task gets
\* RemainingExecution = C (unfinished work is dropped), AbsoluteDeadline =
\* t + D and NextReleaseTime increased by T; a task that is not due keeps
\* all its fields.
C16_ReleaseEffect ==
    [][ReleaseStep =>
          \A n \in DOMAIN state :
              IF state[n].next_release <= time
              THEN /\ state'[n].remaining = state[n].C
                   /\ state'[n].abs_deadline = time + state[n].D
                   /\ state'[n].next_release = state[n].next_release + state[n].T
                   /\ state'[n].C = state[n].C
                   /\ state'[n].T = state[n].T
                   /\ state'[n].D = state[n].D
              ELSE state'[n] = state[n]]_vars

C16_Witness ==
    /\ pc = "dispatch"
    /\ time > 0
    /\ \E n, m \in DOMAIN state :
          /\ state[n].next_release = time + state[n].T
          /\ state[n].remaining = state[n].C
          /\ state[n].abs_deadline = time + state[n].D
          /\ state[m].next_release < time + state[m].T
          /\ state[m].remaining > 0
          /\ state[m].remaining < state[m].C

\* C17: the slot emitted at time t is IDLE if and only if no task has
\* execution left after the release step at t; otherwise it goes to a task
\* that has execution left at that moment.
DispatchStep == pc = "dispatch" /\ pc' = "release"

C17_WorkConserving ==
    [][DispatchStep =>
          /\ Len(schedule') = Len(schedule) + 1
          /\ schedule'[Len(schedule')][1] = time
          /\ Slot = IDLE <=> ReadySet = {}
          /\ ReadySet # {} => Slot \in ReadySet]_vars

C17_Witness ==
    /\ pc = "release"
    /\ time >= 2
    /\ order # <<>>
    /\ schedule[time][2] = IDLE
    /\ schedule[time - 1][2] # IDLE
    /\ \A n \in DOMAIN state : state[n].remaining = 0

\* C18: every task always has 0 <= RemainingExecution <= C; the dispatch
\* step takes exactly 1 from the chosen task's RemainingExecution and
\* changes nothing else in any task's record.
C18_RemainingExecution ==
    [][Started =>
          /\ \A n \in DOMAIN state :
                0 <= state[n].remaining /\ state[n].remaining <= state[n].C
          /\ \A n \in DOMAIN state' :
                0 <= state'[n].remaining /\ state'[n].remaining <= state'[n].C
          /\ DispatchStep =>
                /\ DOMAIN state' = DOMAIN state
                /\ \A n \in DOMAIN state :
                      IF n = Slot
                      THEN state'[n] =
                              [state[n] EXCEPT !.remaining = state[n].remaining - 1]
                      ELSE state'[n] = state[n]]_vars

C18_Witness ==
    /\ pc = "release"
    /\ time >= 1
    /\ \E n, m \in DOMAIN state :
          /\ n # m
          /\ schedule[time][2] = n
          /\ state[n].C >= 2
          /\ state[n].remaining = state[n].C - 1
          /\ state[m].remaining = state[m].C
          /\ state[m].next_release = state[n].next_release

\* C19: in every mode the cumulative miss counter equals the sum of the
\* tasks' MissCounts before and after every step, and it never decreases.
RECURSIVE SumMisses(_, _)
SumMisses(st, names) ==
    IF names = <<>> THEN 0
    ELSE st[Head(names)].misses + SumMisses(st, Tail(names))

C19_MissCounterIsSum ==
    [][Started =>
          /\ recent_misses = SumMisses(state, order)
          /\ recent_misses' = SumMisses(state', order')
          /\ recent_misses' >= recent_misses]_vars

C19_Witness ==
    /\ pc = "dispatch"
    /\ \E n, m \in DOMAIN state :
          /\ n # m
          /\ state[n].misses >= 1
          /\ state[m].misses >= 1
          /\ recent_misses = state[n].misses + state[m].misses

\* C20: a task is released exactly at the times k*T below sim_time; from
\* its second release on, the outgoing job's AbsoluteDeadline is
\* (k-1)*T + D; a task with Deadline >= Period never gets a miss counted.
C20_ReleaseTimesAndMisses ==
    Started =>
        \A n \in DOMAIN state :
            LET s == state[n]
            IN  /\ s.next_release % s.T = 0
                /\ pc = "dispatch" =>
                      /\ s.next_release > time
                      /\ s.next_release - s.T <= time
                      /\ s.next_release = time + s.T <=> time % s.T = 0
                /\ pc # "dispatch" =>
                      /\ s.next_release >= time
                      /\ s.next_release < time + s.T
                /\ s.next_release > 0 =>
                      s.abs_deadline = s.next_release - s.T + s.D
                /\ s.D >= s.T => s.misses = 0
                /\ s.misses > 0 => s.D < s.T

C20_Witness ==
    /\ pc = "release"
    /\ time > 0
    /\ time < sim_time
    /\ \E n, m \in DOMAIN state :
          /\ state[n].D >= state[n].T
          /\ state[n].next_release = time
          /\ state[n].remaining > 0
          /\ state[n].misses = 0
          /\ state[m].D < state[m].T
          /\ state[m].misses > 0

====
